---------------------------- MODULE Spec2Model ----------------------------
(***************************************************************************)
(* UML <-> Code Studio: the Mermaid normalisation pipeline of server.mjs   *)
(* (normalizeMermaidOutput, sanitizeActivityFlowchart) and of src/main.js  *)
(* (sanitizeActivityFlowchartClient), with stripMermaidFences.             *)
(*                                                                         *)
(* A text is a sequence of one-character strings.  Every regular           *)
(* expression of the source is translated into a matcher M(s, i) that      *)
(* returns the index just behind the match that starts at index i, or 0    *)
(* when the expression does not match there; String.replace is ReplaceAll  *)
(* (flag g) over such a matcher.                                           *)
(***************************************************************************)
EXTENDS Integers, Sequences, FiniteSets, TLC

(***************************************************************************)
(* Characters and character classes of the regular expressions.            *)
(***************************************************************************)
LowerLetters == {"a","b","c","d","e","f","g","h","i","j","k","l","m",
                 "n","o","p","q","r","s","t","u","v","w","x","y","z"}
UpperLetters == {"A","B","C","D","E","F","G","H","I","J","K","L","M",
                 "N","O","P","Q","R","S","T","U","V","W","X","Y","Z"}
Digits == {"0","1","2","3","4","5","6","7","8","9"}

\* \s of the regular expressions, and the characters String.trim removes
IsSpace(c) == c \in {" ", "\t", "\n", "\r", "\f"}
\* \w
IsWordCh(c) == c \in LowerLetters \cup UpperLetters \cup Digits \cup {"_"}
\* [A-Za-z]
IsLetter(c) == c \in LowerLetters \cup UpperLetters

LowerMap ==
  ("A" :> "a") @@ ("B" :> "b") @@ ("C" :> "c") @@ ("D" :> "d") @@
  ("E" :> "e") @@ ("F" :> "f") @@ ("G" :> "g") @@ ("H" :> "h") @@
  ("I" :> "i") @@ ("J" :> "j") @@ ("K" :> "k") @@ ("L" :> "l") @@
  ("M" :> "m") @@ ("N" :> "n") @@ ("O" :> "o") @@ ("P" :> "p") @@
  ("Q" :> "q") @@ ("R" :> "r") @@ ("S" :> "s") @@ ("T" :> "t") @@
  ("U" :> "u") @@ ("V" :> "v") @@ ("W" :> "w") @@ ("X" :> "x") @@
  ("Y" :> "y") @@ ("Z" :> "z")
\* one character of String.toLowerCase; the i flag compares lowered characters
LowerCh(c) == IF c \in UpperLetters THEN LowerMap[c] ELSE c
toLowerCase(s) == [k \in 1..Len(s) |-> LowerCh(s[k])]

\* the character at index i, "" outside the text
At(s, i) == IF i >= 1 /\ i <= Len(s) THEN s[i] ELSE ""
\* the literal lit stands at index i
HasLit(s, i, lit) ==
  /\ i >= 1
  /\ i + Len(lit) - 1 <= Len(s)
  /\ \A k \in 1..Len(lit) : s[i + k - 1] = lit[k]
\* the same under the i flag
HasLitI(s, i, lit) ==
  /\ i >= 1
  /\ i + Len(lit) - 1 <= Len(s)
  /\ \A k \in 1..Len(lit) : LowerCh(s[i + k - 1]) = LowerCh(lit[k])
\* \b at index i: exactly one of the characters before and at i is a word character
WordBoundary(s, i) == IsWordCh(At(s, i - 1)) # IsWordCh(At(s, i))

\* the least element of a non-empty set of integers
Min(S) == CHOOSE x \in S : \A y \in S : x <= y
\* a greedy run C* from index i: the first index at or behind i that holds no
\* character of the class C (the index behind the text if there is none)
SkipWhile(C(_), s, i) ==
  IF i < 1 \/ i > Len(s) THEN i
  ELSE CHOOSE k \in i..(Len(s) + 1) :
         /\ k > Len(s) \/ ~C(s[k])
         /\ \A m \in i..(k - 1) : C(s[m])
\* the first index of the run of C that ends just before index i
SkipBackWhile(C(_), s, i) ==
  IF i <= 1 THEN i
  ELSE CHOOSE k \in 1..i :
         /\ k = 1 \/ ~C(s[k - 1])
         /\ \A m \in k..(i - 1) : C(s[m])
\* \s* and \w* (greedy; what follows them in the expressions of the source
\* never starts with a character of the run, so nothing is given back)
SkipSpace(s, i) == SkipWhile(IsSpace, s, i)
SkipWord(s, i) == SkipWhile(IsWordCh, s, i)
SkipSpaceBack(s, i) == SkipBackWhile(IsSpace, s, i)

\* the text from index i to the end / before index i
From(s, i) == SubSeq(s, i, Len(s))
Upto(s, i) == SubSeq(s, 1, i - 1)

\* String.trim
trim(s) ==
  LET a == SkipSpace(s, 1)
      b == SkipSpaceBack(s, Len(s) + 1)
  IN  IF a > Len(s) THEN <<>> ELSE SubSeq(s, a, b - 1)

RECURSIVE ReplaceFrom(_, _, _, _, _)
\* String.replace with a g-flagged expression: the matches are found from left
\* to right on the original text, each is replaced by R, the rest is copied.
\* No expression of the source matches the empty text.
ReplaceFrom(M(_, _), R(_, _, _), s, i, acc) ==
  LET hits == {k \in i..Len(s) : M(s, k) > k}
  IN  IF hits = {} THEN acc \o From(s, i)
      ELSE LET k == Min(hits)
           IN  ReplaceFrom(M, R, s, M(s, k), acc \o SubSeq(s, i, k - 1) \o R(s, k, M(s, k)))
ReplaceAll(M(_, _), R(_, _, _), s) == ReplaceFrom(M, R, s, 1, <<>>)

\* String.split(/\r?\n/): the index of the first line break, 0 if there is none
FirstBreak(s) ==
  IF \E k \in 1..Len(s) : s[k] = "\n"
  THEN Min({k \in 1..Len(s) : s[k] = "\n"}) ELSE 0

(***************************************************************************)
(* Literals of the source.                                                 *)
(***************************************************************************)
\* the character U+0060, which a TLA+ string cannot hold
Backtick == "U+0060"
Fence == <<Backtick,Backtick,Backtick>>
L_mermaid == <<"m","e","r","m","a","i","d">>
L_usecaseDiagram == <<"u","s","e","c","a","s","e","D","i","a","g","r","a","m">>
L_activityDiagram == <<"a","c","t","i","v","i","t","y","D","i","a","g","r","a","m">>
L_flowchartLR == <<"f","l","o","w","c","h","a","r","t"," ","L","R">>
L_flowchartTD == <<"f","l","o","w","c","h","a","r","t"," ","T","D">>
L_flowchart == <<"f","l","o","w","c","h","a","r","t">>
L_start == <<"s","t","a","r","t">>
L_end == <<"e","n","d">>
L_startNode == <<"s","t","a","r","t","N","o","d","e">>
L_endNode == <<"e","n","d","N","o","d","e">>
Arrows == {<<"-","-",">">>, <<"-",".","-",">">>, <<".",".","-",">">>}
ClassTags == {<<"s","t","a","r","t","e","n","d">>, <<"s","t","e","p">>, <<"d","e","c","i","s","i","o","n">>, <<"b","a","r">>}
DefaultClassDefs == <<"\n","\n","c","l","a","s","s","D","e","f"," ","s","t","a","r","t","e","n","d"," ","f","i","l","l",":","#","f","f","f",",","s","t","r","o","k","e",":","#","8","8","8",",","s","t","r","o","k","e","-","w","i","d","t","h",":","1","p","x",",","c","o","l","o","r",":","#","1","1","1",";","\n","c","l","a","s","s","D","e","f"," ","b","a","r"," ","s","t","r","o","k","e",":","#","3","3","3",",","s","t","r","o","k","e","-","w","i","d","t","h",":","4","p","x",";","\n","c","l","a","s","s","D","e","f"," ","s","t","e","p"," ","f","i","l","l",":","#","e","e","f",",","s","t","r","o","k","e",":","#","9","9","f",",","c","o","l","o","r",":","#","0","0","1",";","\n","c","l","a","s","s","D","e","f"," ","d","e","c","i","s","i","o","n"," ","f","i","l","l",":","#","f","f","d",",","s","t","r","o","k","e",":","#","c","c","4",",","c","o","l","o","r",":","#","2","2","1",";">>

(***************************************************************************)
(* stripMermaidFences (server.mjs 104-112, main.js 65-73: the same text).  *)
(***************************************************************************)
\* a faulty variant of OpenFenceEnd: the optional tag (?:mermaid)? is left out
OpenFenceEndUntagged(t) == IF HasLit(t, 1, Fence) THEN SkipSpace(t, 4) ELSE 0
\* /^FENCE(?:mermaid)?\s*/i at index 1 (FENCE: three U+0060): the index behind the match, 0 if none
OpenFenceEnd(t) ==
  IF ~HasLit(t, 1, Fence) THEN 0
  ELSE IF HasLitI(t, 4, L_mermaid) THEN SkipSpace(t, 4 + Len(L_mermaid))
  ELSE SkipSpace(t, 4)
\* /^FENCE\s*/i
BareFenceEnd(t) == IF HasLit(t, 1, Fence) THEN SkipSpace(t, 4) ELSE 0
\* replace(/\s*FENCE$/i, ""): the closing fence with the spaces before it
DropCloseFence(t) ==
  IF Len(t) >= 3 /\ HasLit(t, Len(t) - 2, Fence)
  THEN Upto(t, SkipSpaceBack(t, Len(t) - 2))
  ELSE t
DropOpenFence(t) == IF OpenFenceEnd(t) > 0 THEN From(t, OpenFenceEnd(t)) ELSE t
DropBareFence(t) == IF BareFenceEnd(t) > 0 THEN From(t, BareFenceEnd(t)) ELSE t

\* the value of a missing argument: null or undefined
Null == <<"null">>
\* String(x || '')
StringOrEmpty(x) == IF x = Null THEN <<>> ELSE x

stripMermaidFences(s) ==
  IF s = <<>> \/ s = Null THEN <<>>
  ELSE LET t0 == trim(s)
           t1 == DropCloseFence(DropOpenFence(t0))
           t2 == IF HasLit(t1, 1, Fence) /\ Len(t1) >= 3 /\ HasLit(t1, Len(t1) - 2, Fence)
                 THEN DropCloseFence(DropBareFence(t1))
                 ELSE t1
       IN  trim(t2)

(***************************************************************************)
(* normalizeMermaidOutput (server.mjs 220-233).                            *)
(***************************************************************************)
\* lines.slice(1).join('\n') of s.split(/\r?\n/): the text behind the first
\* line break, every "\r\n" in it turned into "\n"
RestLines(s) ==
  IF FirstBreak(s) = 0 THEN <<>>
  ELSE ReplaceAll(LAMBDA x, i : IF HasLit(x, i, <<"\r", "\n">>) THEN i + 2 ELSE 0,
                  LAMBDA x, i, j : <<"\n">>,
                  From(s, FirstBreak(s) + 1))
\* (lines[0] || '').trim()
FirstLine(s) ==
  IF FirstBreak(s) = 0 THEN trim(s) ELSE trim(Upto(s, FirstBreak(s)))
\* /^usecaseDiagram\b/i and /^activityDiagram\b/i on the first line
BogusHeader(first, token) ==
  HasLitI(first, 1, token) /\ WordBoundary(first, Len(token) + 1)

\* /<<\s*actor\s*>>/gi and its two siblings: the index behind the match at i
StereoEnd(s, i, word) ==
  IF ~HasLit(s, i, <<"<", "<">>) THEN 0
  ELSE LET a == SkipSpace(s, i + 2)
           b == SkipSpace(s, a + Len(word))
       IN  IF HasLitI(s, a, word) /\ HasLit(s, b, <<">", ">">>) THEN b + 2 ELSE 0
\* one of the three replaces: the match becomes the word in guillemets
Stereotype(word, s) ==
  ReplaceAll(LAMBDA x, i : StereoEnd(x, i, word),
             LAMBDA x, i, j : <<"«">> \o word \o <<"»">>,
             s)
Stereotypes(s) ==
  Stereotype(<<"e","x","t","e","n","d">>, Stereotype(<<"i","n","c","l","u","d","e">>, Stereotype(<<"a","c","t","o","r">>, s)))

\* the header the corrector writes for a bogus token; the hint kind is not read
HeaderFor(kind, token) ==
  IF token = L_usecaseDiagram THEN L_flowchartLR ELSE L_flowchartTD

normalizeMermaidOutput(kind, text) ==
  LET s0 == stripMermaidFences(StringOrEmpty(text))
      first == FirstLine(s0)
      rest == RestLines(s0)
      s1 == IF BogusHeader(first, L_usecaseDiagram)
            THEN HeaderFor(kind, L_usecaseDiagram) \o <<"\n">> \o rest ELSE s0
      s2 == IF BogusHeader(first, L_activityDiagram)
            THEN HeaderFor(kind, L_activityDiagram) \o <<"\n">> \o rest ELSE s1
  IN  Stereotypes(s2)

(***************************************************************************)
(* Stage 1 of sanitizeActivityFlowchart: the header is forced to           *)
(* "flowchart TD" (server.mjs 239).                                        *)
(***************************************************************************)
\* /^\s*(graph|flowchart)\s+[A-Z]{1,2}/i at index 1
ForceHeaderEnd(t) ==
  LET a == SkipSpace(t, 1)
      b == IF HasLitI(t, a, <<"g","r","a","p","h">>) THEN a + 5
           ELSE IF HasLitI(t, a, L_flowchart) THEN a + Len(L_flowchart) ELSE 0
      c == SkipSpace(t, b)
  IN  IF b = 0 \/ c = b \/ ~IsLetter(At(t, c)) THEN 0
      ELSE IF IsLetter(At(t, c + 1)) THEN c + 2 ELSE c + 1
\* a faulty variant of ForceHeader: the first line is overwritten whatever it is
ForceHeaderAlways(t) ==
  IF FirstBreak(t) = 0 THEN L_flowchartTD ELSE L_flowchartTD \o From(t, FirstBreak(t))
ForceHeader(t) ==
  IF ForceHeaderEnd(t) > 0 THEN L_flowchartTD \o From(t, ForceHeaderEnd(t)) ELSE t

(***************************************************************************)
(* Reserved identifiers start / end (server.mjs 241-252, main.js 93-101).  *)
(***************************************************************************)
\* the arrow (-->|-\.->|\.\.->) at index i, <<>> if there is none
ArrowAt(s, i) ==
  IF HasLit(s, i, <<"-","-",">">>) THEN <<"-","-",">">>
  ELSE IF HasLit(s, i, <<"-",".","-",">">>) THEN <<"-",".","-",">">>
  ELSE IF HasLit(s, i, <<".",".","-",">">>) THEN <<".",".","-",">">>
  ELSE <<>>
\* word\(\(\s*Word\s*\)\) under the i flag at index k: the index behind it, 0 if none
TerminalDeclEnd(s, k, word) ==
  IF ~(HasLitI(s, k, word) /\ HasLit(s, k + Len(word), <<"(","(">>)) THEN 0
  ELSE LET a == SkipSpace(s, k + Len(word) + 2)
           b == SkipSpace(s, a + Len(word))
       IN  IF HasLitI(s, a, word) /\ HasLit(s, b, <<")",")">>) THEN b + 2 ELSE 0
\* /(^|\s)start\(\(\s*Start\s*\)\)/ig (no m flag: ^ is the start of the text)
StandaloneDeclEnd(s, i, word) ==
  IF i = 1 /\ TerminalDeclEnd(s, 1, word) > 0 THEN TerminalDeclEnd(s, 1, word)
  ELSE IF IsSpace(At(s, i)) THEN TerminalDeclEnd(s, i + 1, word)
  ELSE 0
\* the text of p1: empty for ^, the space for \s
LeadOf(s, i) == IF IsSpace(At(s, i)) THEN <<s[i]>> ELSE <<>>
\* /(\s-->\s*)end\(\(\s*End\s*\)\)/ig
InlineDeclEnd(s, i, word) ==
  IF IsSpace(At(s, i)) /\ HasLit(s, i + 1, <<"-","-",">">>)
  THEN TerminalDeclEnd(s, SkipSpace(s, i + 4), word)
  ELSE 0
\* /(-->|-\.->|\.\.->)\s*end\b/ig
TargetRefEnd(s, i, word) ==
  IF ArrowAt(s, i) = <<>> THEN 0
  ELSE LET k == SkipSpace(s, i + Len(ArrowAt(s, i)))
       IN  IF HasLitI(s, k, word) /\ WordBoundary(s, k + Len(word))
           THEN k + Len(word) ELSE 0
\* /\bend\b\s*(-->|-\.->|\.\.->)/ig
SourceRefEnd(s, i, word) ==
  IF ~(HasLitI(s, i, word) /\ WordBoundary(s, i) /\ WordBoundary(s, i + Len(word)))
  THEN 0
  ELSE LET k == SkipSpace(s, i + Len(word))
       IN  IF ArrowAt(s, k) # <<>> THEN k + Len(ArrowAt(s, k)) ELSE 0

\* server.mjs 243-244 and main.js 94-95: the standalone declaration of word
\* becomes decl behind the lead it had
RenameStandaloneDecl(word, decl, t) ==
  ReplaceAll(LAMBDA s, i : StandaloneDeclEnd(s, i, word),
             LAMBDA s, i, j : LeadOf(s, i) \o decl,
             t)
RenameStandaloneDecls(t) ==
  RenameStandaloneDecl(L_end, <<"e","n","d","N","o","d","e","(","(","E","n","d",")",")">>,
    RenameStandaloneDecl(L_start, <<"s","t","a","r","t","N","o","d","e","(","(","S","t","a","r","t",")",")">>, t))
\* server.mjs 246-247 and main.js 96-97: $1 (the space, the arrow and the
\* spaces behind it) is kept, the declaration becomes decl
RenameInlineDecl(word, decl, t) ==
  ReplaceAll(LAMBDA s, i : InlineDeclEnd(s, i, word),
             LAMBDA s, i, j : SubSeq(s, i, SkipSpace(s, i + 4) - 1) \o decl,
             t)
RenameInlineDecls(t) ==
  RenameInlineDecl(L_start, <<"s","t","a","r","t","N","o","d","e","(","(","S","t","a","r","t",")",")">>,
    RenameInlineDecl(L_end, <<"e","n","d","N","o","d","e","(","(","E","n","d",")",")">>, t))
\* server.mjs 249-252 and main.js 98-101: '$1 endNode' and 'endNode $1'
RenameTargetRef(word, alias, t) ==
  ReplaceAll(LAMBDA s, i : TargetRefEnd(s, i, word),
             LAMBDA s, i, j : ArrowAt(s, i) \o <<" ">> \o alias,
             t)
RenameSourceRef(word, alias, t) ==
  ReplaceAll(LAMBDA s, i : SourceRefEnd(s, i, word),
             LAMBDA s, i, j : alias \o <<" ">> \o ArrowAt(s, SkipSpace(s, i + Len(word))),
             t)
RenameEdgeRefs(t) ==
  RenameSourceRef(L_start, L_startNode,
    RenameTargetRef(L_start, L_startNode,
      RenameSourceRef(L_end, L_endNode,
        RenameTargetRef(L_end, L_endNode, t))))
RenameReserved(t) == RenameEdgeRefs(RenameInlineDecls(RenameStandaloneDecls(t)))

(***************************************************************************)
(* Branch labels (server.mjs 254-257, main.js 87-89).                      *)
(***************************************************************************)
\* --\|([^|]+)\| at index i: the index of the closing pipe, 0 if none
DashLabelPipe(s, i) ==
  IF ~HasLit(s, i, <<"-","-","|">>) THEN 0
  ELSE LET p == SkipWhile(LAMBDA c : c # "|", s, i + 3)
       IN  IF p > i + 3 /\ At(s, p) = "|" THEN p ELSE 0
BranchLabel(s, i) == SubSeq(s, i + 3, DashLabelPipe(s, i) - 1)
\* /--\|([^|]+)\|-->/g
LabelArrowEnd(s, i) ==
  LET p == DashLabelPipe(s, i)
  IN  IF p > 0 /\ HasLit(s, p + 1, <<"-","-",">">>) THEN p + 4 ELSE 0
\* a faulty variant of LabelArrowRepl: the match is written back as it was
LabelArrowReplKept(s, i, j) == SubSeq(s, i, j - 1)
LabelArrowRepl(s, i, j) == <<"-","-",">","|">> \o BranchLabel(s, i) \o <<"|">>
\* /--\|([^|]+)\|\s+([A-Za-z_][\w]*)/g
LabelTargetEnd(s, i) ==
  LET p == DashLabelPipe(s, i)
      k == SkipSpace(s, p + 1)
  IN  IF p > 0 /\ k > p + 1 /\ (IsLetter(At(s, k)) \/ At(s, k) = "_")
      THEN SkipWord(s, k + 1) ELSE 0
LabelTargetRepl(s, i, j) ==
  <<"-","-",">","|">> \o BranchLabel(s, i) \o <<"|"," ">>
    \o SubSeq(s, SkipSpace(s, DashLabelPipe(s, i) + 1), j - 1)
FixBranchLabels(t) ==
  ReplaceAll(LabelTargetEnd, LabelTargetRepl, ReplaceAll(LabelArrowEnd, LabelArrowRepl, t))

(***************************************************************************)
(* Direct references to ((Start)) / ((End)) (server.mjs 293-295 and 314,   *)
(* main.js 90-92).                                                         *)
(***************************************************************************)
\* /-->\s*\(\(\s*End\s*\)\)/ig: the index behind the match at i
AnonRefEnd(s, i, word) ==
  IF ~HasLit(s, i, <<"-","-",">">>) THEN 0
  ELSE LET k == SkipSpace(s, i + 3)
           a == SkipSpace(s, k + 2)
           b == SkipSpace(s, a + Len(word))
       IN  IF HasLit(s, k, <<"(","(">>) /\ HasLitI(s, a, word) /\ HasLit(s, b, <<")",")">>)
           THEN b + 2 ELSE 0
\* one of the replaces: the match becomes the arrow, a space and the alias
RewriteAnonRef(word, alias, t) ==
  ReplaceAll(LAMBDA s, i : AnonRefEnd(s, i, word),
             LAMBDA s, i, j : <<"-","-",">"," ">> \o alias,
             t)
\* server.mjs 314: the End replace alone
RewriteAnonEnd(t) == RewriteAnonRef(L_end, L_endNode, t)
\* server.mjs 294-295 and main.js 91-92
RewriteAnonRefs(t) == RewriteAnonRef(L_start, L_startNode, RewriteAnonEnd(t))

(***************************************************************************)
(* Identifier allocation for anonymous nodes (server.mjs 259-291,          *)
(* main.js 102-126).                                                       *)
(***************************************************************************)
DigitChars == <<"0","1","2","3","4","5","6","7","8","9">>
RECURSIVE ToDigits(_)
\* the decimal text a template literal gives a number
ToDigits(n) ==
  IF n < 10 THEN <<DigitChars[n + 1]>>
  ELSE Append(ToDigits(n \div 10), DigitChars[(n % 10) + 1])

IsSlugCh(c) == c \in LowerLetters \cup Digits
\* replace(/[^a-z0-9]+/g, '_')
ReplaceNonSlug(s) ==
  ReplaceAll(LAMBDA x, i : IF IsSlugCh(x[i]) THEN 0
                           ELSE SkipWhile(LAMBDA c : ~IsSlugCh(c), x, i),
             LAMBDA x, i, j : <<"_">>,
             s)
\* replace(/^_+|_+$/g, '')
StripUnderscores(s) ==
  LET a == SkipWhile(LAMBDA c : c = "_", s, 1)
      b == SkipBackWhile(LAMBDA c : c = "_", s, Len(s) + 1)
  IN  IF a > Len(s) THEN <<>> ELSE SubSeq(s, a, b - 1)

\* slug: the identifier of a label and the counter seq after the call
slug(label, seq) ==
  LET v == StripUnderscores(ReplaceNonSlug(toLowerCase(label)))
  IN  IF v # <<>> THEN [id |-> v, seq |-> seq]
      ELSE [id |-> <<"n">> \o ToDigits(seq), seq |-> seq + 1]

\* the value true that idMap.set(v, true) stores
TrueMark == <<"t","r","u","e">>

\* a faulty variant of FreeId: the base is taken without the while loop
FreeIdUnprobed(idMap, base, v, i) == v
RECURSIVE FreeId(_, _, _, _)
\* while (idMap.has(v)) v = base + '_' + (i++)
FreeId(idMap, base, v, i) ==
  IF v \in DOMAIN idMap
  THEN FreeId(idMap, base, base \o <<"_">> \o ToDigits(i), i + 1)
  ELSE v

\* ensureId / ensure: the identifier of key and idMap after the call; the one
\* Map holds the node keys and the identifiers in use
ensureId(idMap, key, base) ==
  IF key \in DOMAIN idMap THEN [id |-> idMap[key], idMap |-> idMap]
  ELSE LET v == FreeId(idMap, base, base, 2)
       IN  [id |-> v, idMap |-> (v :> TrueMark) @@ (key :> v) @@ idMap]

\* the three bracket shapes, in the order the allocator handles them
OpenOf(shape) ==
  CASE shape = "rect" -> <<"[">> [] shape = "circle" -> <<"(","(">> [] shape = "diamond" -> <<"{">>
CloseOf(shape) ==
  CASE shape = "rect" -> <<"]">> [] shape = "circle" -> <<")",")">> [] shape = "diamond" -> <<"}">>
\* the key of idMap: '[]:' + label, '((' + label + '))', '{}:' + label
KeyOf(shape, label) ==
  CASE shape = "rect" -> <<"[","]",":">> \o label
    [] shape = "circle" -> <<"(","(">> \o label \o <<")",")">>
    [] shape = "diamond" -> <<"{","}",":">> \o label

\* /end/i.test(label)
Contains(label, word) == \E k \in 1..Len(label) : HasLitI(label, k, word)

\* the names the circular shape gives a terminal: the server uses the aliases
\* of the reserved-identifier stage, the client the bare words
EndBase(side) == IF side = "server" THEN L_endNode ELSE L_end
StartBase(side) == IF side = "server" THEN L_startNode ELSE L_start

\* the second argument of ensureId, and seq after it was computed
BaseOf(shape, side, label, seq) ==
  CASE shape = "rect" -> slug(label, seq)
    [] shape = "circle" ->
         IF Contains(label, L_end) THEN [id |-> EndBase(side), seq |-> seq]
         ELSE IF Contains(label, L_start) THEN [id |-> StartBase(side), seq |-> seq]
         ELSE slug(label, seq)
    [] shape = "diamond" ->
         [id |-> <<"q","_">> \o slug(label, seq).id, seq |-> slug(label, seq).seq]

\* the first index at or behind i that holds a bracket character of the shape
SkipLabel(s, i, brackets) ==
  IF \E k \in i..Len(s) : s[k] \in brackets
  THEN Min({k \in i..Len(s) : s[k] \in brackets}) ELSE Len(s) + 1
\* the last index of c that holds no "\n", 0 if there is none
LastNonBreak(c) ==
  IF \E k \in 1..Len(c) : c[k] # "\n"
  THEN CHOOSE k \in 1..Len(c) : c[k] # "\n" /\ \A m \in (k + 1)..Len(c) : c[m] = "\n"
  ELSE 0
\* \s*(label+?)\s* on the text c between the brackets: the lazy label is the
\* trimmed text, or one space of an all-space text; <<>> if nothing matches
LabelOf(c) ==
  LET tc == trim(c)
  IN  IF tc # <<>>
      THEN (IF \E k \in 1..Len(tc) : tc[k] = "\n" THEN <<>> ELSE tc)
      ELSE (IF LastNonBreak(c) = 0 THEN <<>> ELSE <<c[LastNonBreak(c)]>>)
\* (\[\s*([^\[\]\n]+?)\s*\]) and its siblings at index k: the index of the
\* closing bracket, 0 if the shape does not stand there
ShapeClose(s, k, shape) ==
  IF ~HasLit(s, k, OpenOf(shape)) THEN 0
  ELSE LET p == k + Len(OpenOf(shape))
           q == SkipLabel(s, p, {OpenOf(shape)[1], CloseOf(shape)[1]})
       IN  IF HasLit(s, q, CloseOf(shape)) /\ LabelOf(SubSeq(s, p, q - 1)) # <<>>
           THEN q ELSE 0
\* (^|\s) before the shape: the index of the opening bracket for a match that
\* starts at index i, 0 if there is none
ShapeOpen(s, i, shape) ==
  IF i = 1 /\ ShapeClose(s, 1, shape) > 0 THEN 1
  ELSE IF IsSpace(At(s, i)) /\ ShapeClose(s, i + 1, shape) > 0 THEN i + 1
  ELSE 0
\* [\w-]* from index i
SkipClassCh(s, i) == SkipWhile(LAMBDA c : IsWordCh(c) \/ c = "-", s, i)
\* (:::[\w-]+)? at index e: the index behind it
ClassSuffixEnd(s, e) ==
  IF HasLit(s, e, <<":",":",":">>) /\ SkipClassCh(s, e + 3) > e + 3 THEN SkipClassCh(s, e + 3) ELSE e
\* /[A-Za-z0-9_]\[$/.test(lead)
AlreadyIdentified(lead, shape) ==
  /\ shape # "circle"
  /\ Len(lead) >= 2
  /\ IsWordCh(lead[Len(lead) - 1])
  /\ lead[Len(lead)] = OpenOf(shape)[1]

\* the positions of the match that starts at index m with its opening bracket
\* at k: e is the index behind the closing bracket, j the index behind the
\* optional class suffix
ShapeSpan(s, m, k, shape) ==
  [m |-> m, k |-> k,
   q |-> ShapeClose(s, k, shape),
   e |-> ShapeClose(s, k, shape) + Len(CloseOf(shape)),
   j |-> ClassSuffixEnd(s, ShapeClose(s, k, shape) + Len(CloseOf(shape)))]

\* the callback of the replace: st holds the text written so far and the
\* closure's idMap and seq; allocs lists the calls of ensureId
AllocCallback(shape, side, st, lead, full, label, klass) ==
  IF AlreadyIdentified(lead, shape)
  THEN [st EXCEPT !.t = @ \o lead \o full \o klass]
  ELSE LET b == BaseOf(shape, side, label, st.seq)
           r == ensureId(st.idMap, KeyOf(shape, label), b.id)
       IN  [t |-> st.t \o lead \o r.id \o OpenOf(shape) \o label \o CloseOf(shape) \o klass,
            idMap |-> r.idMap,
            seq |-> b.seq,
            allocs |-> Append(st.allocs, [key |-> KeyOf(shape, label), id |-> r.id])]

RECURSIVE AllocFrom(_, _, _, _, _)
\* the match h: the text before it is copied, the callback writes the match,
\* the scan goes on behind it
AllocSpan(shape, side, s, i, st, h) ==
  AllocFrom(shape, side, s, h.j,
            AllocCallback(shape, side, [st EXCEPT !.t = @ \o SubSeq(s, i, h.m - 1)],
                          SubSeq(s, h.m, h.k - 1),
                          SubSeq(s, h.k, h.e - 1),
                          LabelOf(SubSeq(s, h.k + Len(OpenOf(shape)), h.q - 1)),
                          SubSeq(s, h.e, h.j - 1)))
AllocAt(shape, side, s, i, st, m) ==
  AllocSpan(shape, side, s, i, st, ShapeSpan(s, m, ShapeOpen(s, m, shape), shape))
\* t.replace(shape expression, callback) from index i on
AllocFrom(shape, side, s, i, st) ==
  IF \A m \in i..Len(s) : ShapeOpen(s, m, shape) = 0
  THEN [st EXCEPT !.t = @ \o From(s, i)]
  ELSE AllocAt(shape, side, s, i, st, Min({m \in i..Len(s) : ShapeOpen(s, m, shape) > 0}))
\* one of the three replaces, on the text and closure state of st
AllocShape(shape, side, st) ==
  AllocFrom(shape, side, st.t, 1, [st EXCEPT !.t = <<>>])
\* the closure state at: const idMap = new Map(); let seq = 1
NewAlloc(t) == [t |-> t, idMap |-> <<>>, seq |-> 1, allocs |-> <<>>]
\* the three replaces in their order: [label], ((label)), {label}
AllocateIds(side, t) ==
  AllocShape("diamond", side, AllocShape("circle", side, AllocShape("rect", side, NewAlloc(t))))

(***************************************************************************)
(* Declarations of startNode / endNode (server.mjs 297-311,                *)
(* main.js 127-139) and the default classDef block (server.mjs 316-326,    *)
(* main.js 140-149).                                                       *)
(***************************************************************************)
\* ^ under the m flag
LineStart(s, i) == i = 1 \/ At(s, i - 1) \in {"\n", "\r"}
\* /^\s*flowchart\s+TD\b/m (server): a match starts at index i
ServerHeaderAt(s, i) ==
  LET a == SkipSpace(s, i)
      b == SkipSpace(s, a + Len(L_flowchart))
  IN  /\ LineStart(s, i)
      /\ HasLit(s, a, L_flowchart)
      /\ b > a + Len(L_flowchart)
      /\ HasLit(s, b, <<"T","D">>)
      /\ WordBoundary(s, b + 2)
\* /^\s*flowchart\s+\w+\b/m (client)
ClientHeaderAt(s, i) ==
  LET a == SkipSpace(s, i)
      b == SkipSpace(s, a + Len(L_flowchart))
  IN  /\ LineStart(s, i)
      /\ HasLit(s, a, L_flowchart)
      /\ b > a + Len(L_flowchart)
      /\ SkipWord(s, b) > b
hasHeader(side, s) ==
  \E i \in 1..Len(s) :
    IF side = "server" THEN ServerHeaderAt(s, i) ELSE ClientHeaderAt(s, i)
\* /^\s*startNode\(\(/m
declares(s, alias) ==
  \E i \in 1..Len(s) :
    LineStart(s, i) /\ HasLit(s, SkipSpace(s, i), alias \o <<"(","(">>)
\* /\b(?:-->|-\.->|\.\.->)\s*startNode\b|\bstartNode\b\s*(?:-->|-\.->|\.\.->)/i
RefTargetAt(s, i, alias) ==
  /\ WordBoundary(s, i)
  /\ ArrowAt(s, i) # <<>>
  /\ LET k == SkipSpace(s, i + Len(ArrowAt(s, i)))
     IN  HasLitI(s, k, alias) /\ WordBoundary(s, k + Len(alias))
RefSourceAt(s, i, alias) ==
  /\ WordBoundary(s, i)
  /\ HasLitI(s, i, alias)
  /\ WordBoundary(s, i + Len(alias))
  /\ ArrowAt(s, SkipSpace(s, i + Len(alias))) # <<>>
refs(s, alias) ==
  \E i \in 1..Len(s) : RefTargetAt(s, i, alias) \/ RefSourceAt(s, i, alias)

\* /^\s*flowchart\s+TD\s*\n?/ (server) and /^\s*flowchart\s+\w+\s*\n?/ (client)
\* at the start of the text: the index behind the match, 0 if none
HeaderMatchEnd(side, s) ==
  LET a == SkipSpace(s, 1)
      b == SkipSpace(s, a + Len(L_flowchart))
      c == IF side = "server"
           THEN (IF HasLit(s, b, <<"T","D">>) THEN b + 2 ELSE 0)
           ELSE (IF SkipWord(s, b) > b THEN SkipWord(s, b) ELSE 0)
  IN  IF HasLit(s, a, L_flowchart) /\ b > a + Len(L_flowchart) /\ c > 0
      THEN SkipSpace(s, c) ELSE 0
\* the callback of the replace: the matched header with the lines it adds
Injected(s) ==
  (IF refs(s, L_startNode) /\ ~declares(s, L_startNode) THEN <<"s","t","a","r","t","N","o","d","e","(","(","S","t","a","r","t",")",")",":",":",":","s","t","a","r","t","e","n","d","\n">> ELSE <<>>)
    \o (IF refs(s, L_endNode) /\ ~declares(s, L_endNode) THEN <<"e","n","d","N","o","d","e","(","(","E","n","d",")",")",":",":",":","s","t","a","r","t","e","n","d","\n">> ELSE <<>>)
\* the client enters the replace only if a declaration is missing; the result
\* is the same, since the callback then adds nothing
DeclareTerminals(side, s) ==
  IF hasHeader(side, s) /\ HeaderMatchEnd(side, s) > 0
  THEN Upto(s, HeaderMatchEnd(side, s)) \o Injected(s) \o From(s, HeaderMatchEnd(side, s))
  ELSE s

\* a faulty variant of usesClasses: every text counts as using a style class
usesClassesAlways(s) == TRUE
\* /:::(startend|step|decision|bar)\b/
usesClasses(s) ==
  \E i \in 1..Len(s) :
    /\ HasLit(s, i, <<":",":",":">>)
    /\ \E tag \in ClassTags : HasLit(s, i + 3, tag) /\ WordBoundary(s, i + 3 + Len(tag))
\* a faulty variant of hasClassDef: an existing classDef line is never seen
hasClassDefBlind(s) == FALSE
\* /^\s*classDef\s+/m
hasClassDef(s) ==
  \E i \in 1..Len(s) :
    LET a == SkipSpace(s, i)
    IN  LineStart(s, i) /\ HasLit(s, a, <<"c","l","a","s","s","D","e","f">>) /\ IsSpace(At(s, a + 8))
\* a faulty variant of InjectClassDefs: the block is appended only for a text
\* that had a tag before the declaration stage, here never for :::startend
InjectClassDefsUserTags(s) ==
  IF (\E i \in 1..Len(s) : \E tag \in ClassTags \ {<<"s","t","a","r","t","e","n","d">>} :
        HasLit(s, i, <<":",":",":">> \o tag) /\ WordBoundary(s, i + 3 + Len(tag)))
       /\ ~hasClassDef(s)
  THEN s \o DefaultClassDefs ELSE s
InjectClassDefs(s) ==
  IF usesClasses(s) /\ ~hasClassDef(s) THEN s \o DefaultClassDefs ELSE s

(***************************************************************************)
(* The two sanitizers as functions of the raw text.                        *)
(***************************************************************************)
sanitizeActivityFlowchart(raw) ==
  InjectClassDefs(RewriteAnonEnd(DeclareTerminals("server",
    RewriteAnonRefs(AllocateIds("server",
      FixBranchLabels(RenameReserved(ForceHeader(stripMermaidFences(StringOrEmpty(raw)))))).t))))
sanitizeActivityFlowchartClient(raw) ==
  InjectClassDefs(DeclareTerminals("client",
    AllocateIds("client",
      RenameReserved(RewriteAnonRefs(FixBranchLabels(stripMermaidFences(StringOrEmpty(raw)))))).t))

(***************************************************************************)
(* The invocations as a state machine.  One invocation normalises one      *)
(* text: on the server POST /api/convert/req2mm and /code2mm run           *)
(* normalizeMermaidOutput and, for the kind activity,                      *)
(* sanitizeActivityFlowchart; the browser runs                             *)
(* sanitizeActivityFlowchartClient.  Each stage of a sanitizer is one      *)
(* step, in the order of the source.                                       *)
(***************************************************************************)
VARIABLES
  side,       \* "server" or "client": the implementation that runs
  kind,       \* diagramKind of the request (server)
  raw,        \* the text the invocation was given
  t,          \* the text as rewritten so far (let t / let mermaid)
  pc,         \* the stage to run next, "done" behind the last one
  pass,       \* 1 for the first invocation, 2 for the one on its output
  out,        \* the output of the first invocation, once it is resubmitted
  idMap,      \* the Map of the allocator
  seq,        \* the placeholder counter of the allocator
  allocs,     \* the calls of ensureId of this invocation: key and identifier
  allocated,  \* the text the declaration stage received
  dir,        \* the data directory: the inode of db.json and of db.json.tmp, 0 if absent
  ino,        \* the content of each inode
  req,        \* the requests that use the database, each with its position
  inflight,   \* the Map __inflight of the page: the promise of each key it has
  fetches,    \* the promises api() created, in order: key and state
  calls,      \* the callers of api(): position, key, promise, what they got
  buttons,    \* the buttons of the page: text, lock, flags, running actions
  loading     \* __loadingDepth and the overlay #loading
vars ==
  <<side, kind, raw, t, pc, pass, out, idMap, seq, allocs, allocated, dir, ino, req,
    inflight, fetches, calls, buttons, loading>>
\* the state of the page in the browser
page == <<inflight, fetches, calls, buttons, loading>>

K_activity == <<"a","c","t","i","v","i","t","y">>
K_usecase == <<"u","s","e","c","a","s","e">>
\* String(diagramKind).toLowerCase() === 'activity'
IsActivity(k) == toLowerCase(k) = K_activity

\* the stages of sanitizeActivityFlowchart and of sanitizeActivityFlowchartClient
ServerStages ==
  <<"strip", "header", "reserved", "branch", "alloc", "anonrefs", "declare",
    "anonend", "classdefs">>
ClientStages ==
  <<"strip", "branch", "anonrefs", "reserved", "alloc", "declare", "classdefs">>
StagesOf(sd) == IF sd = "server" THEN ServerStages ELSE ClientStages
NextStage(sd, stage) ==
  LET S == StagesOf(sd)
      k == CHOOSE n \in 1..Len(S) : S[n] = stage
  IN  IF k = Len(S) THEN "done" ELSE S[k + 1]

\* a stage that rewrites the text only
Rewrite(stage, new) ==
  /\ pc = stage
  /\ t' = new
  /\ pc' = NextStage(side, stage)
  /\ UNCHANGED <<page, dir, ino, req, side, kind, raw, pass, out, idMap, seq, allocs, allocated>>

\* server.mjs 551-553 and 590-592
Normalize ==
  /\ pc = "normalize"
  /\ t' = normalizeMermaidOutput(kind, t)
  /\ pc' = IF IsActivity(kind) THEN "strip" ELSE "done"
  /\ UNCHANGED <<page, dir, ino, req, side, kind, raw, pass, out, idMap, seq, allocs, allocated>>
\* server.mjs 237, main.js 86
Strip == Rewrite("strip", stripMermaidFences(StringOrEmpty(t)))
\* server.mjs 239
ForceHeaderStage == Rewrite("header", ForceHeader(t))
\* server.mjs 243-252, main.js 94-101
Reserved == Rewrite("reserved", RenameReserved(t))
\* server.mjs 256-257, main.js 88-89
Branch == Rewrite("branch", FixBranchLabels(t))
\* a faulty variant of Allocate: the Map and the counter are those the earlier
\* invocation left behind, as if they were declared outside the function
AllocateShared ==
  /\ pc = "alloc"
  /\ \E st \in {AllocShape("diamond", side, AllocShape("circle", side,
                   AllocShape("rect", side,
                     [t |-> t, idMap |-> idMap, seq |-> seq, allocs |-> <<>>])))} :
       /\ t' = st.t
       /\ idMap' = st.idMap
       /\ seq' = st.seq
       /\ allocs' = st.allocs
  /\ pc' = NextStage(side, "alloc")
  /\ UNCHANGED <<page, dir, ino, req, side, kind, raw, pass, out, allocated>>
\* server.mjs 260-291, main.js 103-126
Allocate ==
  /\ pc = "alloc"
  /\ \E st \in {AllocateIds(side, t)} :
       /\ t' = st.t
       /\ idMap' = st.idMap
       /\ seq' = st.seq
       /\ allocs' = st.allocs
  /\ pc' = NextStage(side, "alloc")
  /\ UNCHANGED <<page, dir, ino, req, side, kind, raw, pass, out, allocated>>
\* server.mjs 294-295, main.js 91-92
AnonRefs == Rewrite("anonrefs", RewriteAnonRefs(t))
\* server.mjs 298-311, main.js 128-139
Declare ==
  /\ pc = "declare"
  /\ t' = DeclareTerminals(side, t)
  /\ allocated' = t
  /\ pc' = NextStage(side, "declare")
  /\ UNCHANGED <<page, dir, ino, req, side, kind, raw, pass, out, idMap, seq, allocs>>
\* server.mjs 314
AnonEnd == Rewrite("anonend", RewriteAnonEnd(t))
\* server.mjs 317-326, main.js 140-149
ClassDefs == Rewrite("classdefs", InjectClassDefs(t))

Sanitize ==
  \/ Strip \/ ForceHeaderStage \/ Reserved \/ Branch \/ Allocate
  \/ AnonRefs \/ Declare \/ AnonEnd \/ ClassDefs

\* the output of the first invocation is normalised again by the same
\* implementation, with a new Map and counter
Resubmit ==
  /\ pc = "done"
  /\ pass = 1
  /\ pass' = 2
  /\ out' = t
  /\ raw' = t
  /\ pc' = IF side = "server" THEN "normalize" ELSE "strip"
  /\ idMap' = <<>>
  /\ seq' = 1
  /\ allocs' = <<>>
  /\ allocated' = <<>>
  /\ UNCHANGED <<page, dir, ino, req, side, kind, t>>

Next == Normalize \/ Sanitize \/ Resubmit

(***************************************************************************)
(* The texts the invocations are given.                                    *)
(***************************************************************************)
\* the most lines below the header of a text
MaxLines == 2
\* the most anonymous nodes of a text of the allocator's specification
MaxNodes == 3

\* the most requests that use the database at the same time
MaxRequests == 3

RECURSIVE JoinLines(_)
\* lines.join('\n')
JoinLines(ls) ==
  IF Len(ls) = 0 THEN <<>>
  ELSE IF Len(ls) = 1 THEN ls[1]
  ELSE ls[1] \o <<"\n">> \o JoinLines(Tail(ls))
\* the sequences of 1..n elements of S
SeqsUpTo(S, n) == UNION {[1..k -> S] : k \in 1..n}
TextsOf(header, Lines, n) ==
  {header \o <<"\n">> \o JoinLines(b) : b \in SeqsUpTo(Lines, n)}
WrapFence(tag, body) == Fence \o tag \o <<"\n">> \o body \o <<"\n">> \o Fence

PipeLines ==
  { <<"A","-","-",">","B">>,
    <<"A"," ","-","-",">"," ","[","E","n","d","]">>,
    <<"(","(","S","t","a","r","t",")",")"," ","-","-",">"," ","[","M","e","a","s","u","r","e","]">>,
    <<"[","M","e","a","s","u","r","e","]","-","-",">","(","(","E","n","d",")",")">>,
    <<"A"," ","-","-",">"," ","e","n","d">>,
    <<"A","-","-",">","e","n","d">>,
    <<"s","t","a","r","t","-",".","-",">","A">>,
    <<"A"," ","-","-",">","|","Y","e","s","|"," ","e","n","d">>,
    <<"A","-","-","|","Y","e","s","|","-","-",">","B">>,
    <<"A","-","-","|","Y","e","s","|","-","-",">","e","n","d">>,
    <<"B","-","-","|","N","o","|"," ","C">>,
    <<"{","o","k","?","}",":",":",":","d","e","c","i","s","i","o","n">>,
    <<"e","n","d","(","(","E","n","d",")",")">>,
    <<"A"," ","-","-",">"," ","e","n","d","(","(","E","n","d",")",")">>,
    <<>>,
    <<" "," ","B","-","-",">","e","n","d">> }
OtherHeaders == {L_flowchartLR, <<"g","r","a","p","h"," ","T","D">>}
PipeTexts ==
  TextsOf(L_flowchartTD, PipeLines, MaxLines)
    \cup UNION {TextsOf(h, PipeLines, 1) : h \in OtherHeaders}
    \cup {WrapFence(L_mermaid, x) : x \in TextsOf(L_flowchartTD, PipeLines, 1)}
\* the headers isValidMermaidHeaderLine accepts
LegalHeaders ==
  {<<"f","l","o","w","c","h","a","r","t"," ","T","D">>, <<"f","l","o","w","c","h","a","r","t"," ","L","R">>, <<"f","l","o","w","c","h","a","r","t"," ","T","B">>, <<"f","l","o","w","c","h","a","r","t"," ","B","T">>, <<"f","l","o","w","c","h","a","r","t"," ","R","L">>,
   <<"s","e","q","u","e","n","c","e","D","i","a","g","r","a","m">>, <<"c","l","a","s","s","D","i","a","g","r","a","m">>}
BogusTexts ==
  UNION {TextsOf(h, {<<"A","-","-",">","B">>, <<"A","-","-","|","Y","e","s","|","-","-",">","B">>, <<"<","<"," ","a","c","t","o","r"," ",">",">"," ","A">>}, MaxLines)
           \cup {above \o h \o <<"\n","A","-","-",">","B">> : above \in {<<"%","%"," ","c","\n">>, <<"\n">>, <<"<","!","-","-"," ","c"," ","-","-",">","\n">>}} :
           h \in {L_usecaseDiagram, L_activityDiagram, <<"U","s","e","C","a","s","e","D","i","a","g","r","a","m">>}}
NodeLines ==
  { <<"[","F","o","o","]">>, <<"[","f","o","o","]">>, <<"[","f","o","o"," ","2","]">>, <<"[","q"," ","f","o","o","]">>, <<"{","f","o","o","}">>, <<"[","?","?","]">>,
    <<"(","(","E","n","d",")",")">>, <<"(","(","F","o","o",")",")">>, <<"(","(","T","h","e"," ","E","n","d",")",")">>, <<"A"," ","-","-",">"," ","[","F","o","o","]">>, <<"A","-","-",">","[","F","o","o","]">> }
AllocTexts == TextsOf(L_flowchartTD, NodeLines, MaxNodes)

\* a file that holds the whole JSON text of a database with these items, a
\* file opened for writing and not yet written, an inode not in use
Document(items) == [state |-> "complete", items |-> items]
Truncated == [state |-> "truncated", items |-> {}]
NoFile == [state |-> "none", items |-> {}]

\* the most callers of api() at the same time
MaxCallers == 3
\* the most fetches api() starts in one behaviour
MaxFetches == 3
\* the buttons of the page that run an action through withLoading
MaxButtons == 2
\* the most calls of withLoading for one button in one behaviour
MaxClicks == 3

\* the page after it was loaded: __inflight is empty (main.js 204),
\* __loadingDepth is 0 (main.js 363) and the overlay is hidden, every button
\* shows its caption and is free
InitPage ==
  /\ inflight = <<>>
  /\ fetches = <<>>
  /\ calls = [c \in 1..MaxCallers |-> [pc |-> "idle", key |-> "", p |-> 0, result |-> ""]]
  /\ buttons = [b \in 1..MaxButtons |->
                 [text |-> "Save", lock |-> FALSE, disabled |-> FALSE, busy |-> FALSE,
                  running |-> <<>>, clicks |-> 0, settled |-> ""]]
  /\ loading = [depth |-> 0, hidden |-> TRUE, text |-> ""]

Start(sd, k, text, first) ==
  /\ InitPage
  /\ side = sd
  /\ kind = k
  /\ raw = text
  /\ t = text
  /\ pc = first
  /\ pass = 1
  /\ out = <<>>
  /\ idMap = <<>>
  /\ seq = 1
  /\ allocs = <<>>
  /\ allocated = <<>>
  /\ dir = [db |-> 1, tmp |-> 0]
  /\ ino = [n \in 1..(MaxRequests + 1) |-> IF n = 1 THEN Document({0}) ELSE NoFile]
  /\ req = [r \in 1..MaxRequests |->
             [pc |-> "load", route |-> "", body |-> <<>>, db |-> {}, fd |-> 0, torn |-> FALSE]]

\* conversions of the server and sanitizer runs of the browser
Init ==
  \/ \E text \in PipeTexts : Start("server", K_activity, text, "normalize")
  \/ \E text \in PipeTexts : Start("client", <<>>, text, "strip")
  \/ \E text \in BogusTexts \cup {h \o <<"\n","A","-","-",">","B">> : h \in LegalHeaders}, k \in {K_activity, K_usecase} :
       Start("server", k, text, "normalize")
Spec == Init /\ [][Next]_vars

\* one run of either sanitizer on texts of anonymous nodes
InitAlloc ==
  \E text \in AllocTexts, sd \in {"server", "client"} : Start(sd, <<>>, text, "strip")
SpecAlloc == InitAlloc /\ [][Sanitize]_vars

\* invocations on a missing argument, the empty text, white space alone, on
\* texts of edges and of anonymous nodes, on texts in which an anonymous
\* node stands next to a node that has an identifier, and on texts with
\* more than one space, a tab or a line break behind a branch label
InitTotal ==
  \E text \in {Null, <<>>, <<" ","\n">>} \cup TextsOf(L_flowchartTD, PipeLines, 1)
                \cup TextsOf(L_flowchartTD, NodeLines, MaxLines)
                \cup TextsOf(L_flowchartTD,
                             {<<"m","e","a","s","u","r","e","[","O","t","h","e","r"," ","s","t","e","p","]","\n","[","M","e","a","s","u","r","e","]">>, <<"n","1","[","F","i","r","s","t","]","\n","[","?","?","]">>,
                              <<"[","M","e","a","s","u","r","e","]","\n","m","e","a","s","u","r","e","_","2","[","O","t","h","e","r"," ","s","t","e","p","]">>,
                              <<"B","-","-","|","N","o","|"," "," ","C">>, <<"B","-","-","|","N","o","|","\t","C">>, <<"B","-","-","|","N","o","|","\n","C">>}, 1) :
    \/ \E k \in {K_activity, K_usecase, <<"A","c","t","i","v","i","t","y">>, <<"s","e","q","u","e","n","c","e">>, <<"c","l","a","s","s">>} :
         Start("server", k, text, "normalize")
    \/ Start("client", <<>>, text, "strip")
SpecTotal == InitTotal /\ [][Next]_vars

\* the whole pipeline as a function of its arguments
PipelineOf(sd, k, text) ==
  IF sd = "client" THEN sanitizeActivityFlowchartClient(text)
  ELSE IF IsActivity(k) THEN sanitizeActivityFlowchart(normalizeMermaidOutput(k, text))
  ELSE normalizeMermaidOutput(k, text)

\* two invocations one after the other in the same process, the second on a
\* text of its own; what the first one left in idMap and seq is still there
\* when the second starts
Invoke ==
  /\ pc = "done"
  /\ pass = 1
  /\ pass' = 2
  /\ out' = t
  /\ \E text \in TextsOf(L_flowchartTD,
                         {<<"[","?","?","]">>, <<"[","F","o","o","]">>, <<"[","f","o","o","]">>, <<"{","f","o","o","}">>, <<"(","(","T","h","e"," ","E","n","d",")",")">>,
                          <<"A"," ","-","-",">"," ","[","q"," ","f","o","o","]">>},
                         MaxLines) :
       raw' = text /\ t' = text
  /\ pc' = IF side = "server" THEN "normalize" ELSE "strip"
  /\ allocs' = <<>>
  /\ allocated' = <<>>
  /\ UNCHANGED <<page, dir, ino, req, side, kind, idMap, seq>>
InitCalls ==
  \E text \in TextsOf(L_flowchartTD,
                       {<<"[","!","!","]","\n","[","?","?","]">>, <<"[","F","o","o","]">>, <<"{","f","o","o","}","\n","[","f","o","o","]">>, <<"(","(","E","n","d",")",")">>}, 1) :
    \/ Start("server", K_activity, text, "normalize")
    \/ Start("client", <<>>, text, "strip")
SpecCalls == InitCalls /\ [][Normalize \/ Sanitize \/ Invoke]_vars

(***************************************************************************)
(* The database file (server.mjs 62-84).  Every request handler awaits     *)
(* loadDb and, to save, saveDb; between two awaits of one request the      *)
(* steps of other requests run.  db.json starts as a complete document     *)
(* that holds one record, written 0.                                       *)
(***************************************************************************)
\* a faulty variant of assertNonEmpty: only a missing value throws
assertNonEmptyLax(v) == v = Null
\* assertNonEmpty, server.mjs 96-98: TRUE if it throws, that is for a value
\* that is missing or empty (!v) or that is white space alone
assertNonEmpty(v) == v = Null \/ v = <<>> \/ trim(v) = <<>>
\* The handlers up to the end of loadDb.  A save (POST /api/save/...) checks
\* its required fields, here the identifier and one more, and answers 400
\* if assertNonEmpty throws (server.mjs 455-456 and 463-464); otherwise it
\* awaits loadDb and enters its record, whose identifier differs from that
\* of every other request and is written r.  A list / get only awaits
\* loadDb.  loadDb, server.mjs 63-76: readFile and JSON.parse; a file that is
\* absent or does not parse gives the empty structure.
LoadDb(r) ==
  /\ req[r].pc = "load"
  /\ \E route \in {"save", "get"} :
     \E body \in IF route = "get" THEN {<<>>}
                 ELSE [1..2 -> {Null, <<>>, <<" ","\t">>, <<"d","1">>}] :
       LET f == IF dir.db = 0 THEN NoFile ELSE ino[dir.db]
           items == IF f.state = "complete" THEN f.items ELSE {}
       IN  IF \E n \in DOMAIN body : assertNonEmpty(body[n])
           THEN req' = [req EXCEPT ![r].pc = "rejected", ![r].route = route,
                                   ![r].body = body]
           ELSE req' = [req EXCEPT ![r] =
                          [pc |-> IF route = "save" THEN "open" ELSE "done",
                           route |-> route,
                           body |-> body,
                           db |-> IF route = "save" THEN items \cup {r} ELSE items,
                           fd |-> 0,
                           torn |-> dir.db # 0 /\ f.state # "complete"]]
  /\ UNCHANGED <<page, dir, ino, side, kind, raw, t, pc, pass, out, idMap, seq, allocs, allocated>>
\* saveDb, server.mjs 81: fs.writeFile opens db.json.tmp with the flag w, which
\* creates the file or truncates the one that is there
OpenTmp(r) ==
  /\ req[r].pc = "open"
  /\ \E fd \in {IF dir.tmp # 0 THEN dir.tmp
                 ELSE Min({n \in DOMAIN ino : ino[n].state = "none"})} :
       /\ dir' = [dir EXCEPT !.tmp = fd]
       /\ ino' = [ino EXCEPT ![fd] = Truncated]
       /\ req' = [req EXCEPT ![r].pc = "write", ![r].fd = fd]
  /\ UNCHANGED <<page, side, kind, raw, t, pc, pass, out, idMap, seq, allocs, allocated>>
\* saveDb, server.mjs 81: fs.writeFile writes the JSON text to the file it
\* opened, whatever name that file has by now
WriteTmp(r) ==
  /\ req[r].pc = "write"
  /\ ino' = [ino EXCEPT ![req[r].fd] = Document(req[r].db)]
  /\ req' = [req EXCEPT ![r].pc = "rename"]
  /\ UNCHANGED <<page, dir, side, kind, raw, t, pc, pass, out, idMap, seq, allocs, allocated>>
\* saveDb, server.mjs 82: fs.rename(tmp, DB_PATH); it rejects with ENOENT when
\* db.json.tmp is gone, and the handler answers 400
RenameTmp(r) ==
  /\ req[r].pc = "rename"
  /\ IF dir.tmp = 0
     THEN /\ req' = [req EXCEPT ![r].pc = "failed"]
          /\ UNCHANGED dir
     ELSE /\ dir' = [db |-> dir.tmp, tmp |-> 0]
          /\ req' = [req EXCEPT ![r].pc = "done"]
  /\ UNCHANGED <<page, ino, side, kind, raw, t, pc, pass, out, idMap, seq, allocs, allocated>>

InitDb == Start("server", <<>>, <<>>, "done")
SpecDb ==
  InitDb /\ [][\E r \in 1..MaxRequests :
                  LoadDb(r) \/ OpenTmp(r) \/ WriteTmp(r) \/ RenameTmp(r)]_vars

(***************************************************************************)
(* The page in the browser (main.js 203-224 and 363-399).  An event        *)
(* handler runs to its next await without interruption; what follows the   *)
(* await runs when the awaited promise has settled.                        *)
(***************************************************************************)
\* a faulty variant of ApiCall: the fetch is started without a look at
\* __inflight
ApiCallUnchecked(c, key) ==
  /\ calls[c].pc # "await"
  /\ Len(fetches) < MaxFetches
  /\ fetches' = Append(fetches, [key |-> key, state |-> "pending"])
  /\ inflight' = ((key :> Len(fetches) + 1) @@ inflight)
  /\ calls' = [calls EXCEPT ![c] =
                 [pc |-> "await", key |-> key, p |-> Len(fetches) + 1, result |-> ""]]
  /\ UNCHANGED <<buttons, loading, dir, ino, req, side, kind, raw, t, pc, pass, out,
                 idMap, seq, allocs, allocated>>
\* api(), main.js 205-220, up to its await: a caller c that is not waiting
\* calls api with the key.  If __inflight has the key the promise stored
\* there is returned; otherwise the fetch is started, its promise is stored
\* under the key and the caller awaits it
ApiCall(c, key) ==
  /\ calls[c].pc # "await"
  /\ IF key \in DOMAIN inflight
     THEN /\ calls' = [calls EXCEPT ![c] =
                         [pc |-> "await", key |-> key, p |-> inflight[key], result |-> ""]]
          /\ UNCHANGED <<inflight, fetches>>
     ELSE /\ Len(fetches) < MaxFetches
          /\ fetches' = Append(fetches, [key |-> key, state |-> "pending"])
          /\ inflight' = ((key :> Len(fetches) + 1) @@ inflight)
          /\ calls' = [calls EXCEPT ![c] =
                         [pc |-> "await", key |-> key, p |-> Len(fetches) + 1, result |-> ""]]
  /\ UNCHANGED <<buttons, loading, dir, ino, req, side, kind, raw, t, pc, pass, out,
                 idMap, seq, allocs, allocated>>
\* main.js 210-215 and 220-222: the promise f settles, with the JSON of the
\* response, or with an error if fetch rejects, the status is not ok or the
\* body does not parse.  The first reaction to the promise is the await of
\* the caller that created it: its finally deletes the key; then every
\* caller that holds the promise gets its value or its error
ApiSettle(f) ==
  /\ f \in DOMAIN fetches
  /\ fetches[f].state = "pending"
  /\ \E outcome \in {"json", "error"} :
       /\ fetches' = [fetches EXCEPT ![f].state = outcome]
       /\ calls' = [c \in DOMAIN calls |->
                      IF calls[c].pc = "await" /\ calls[c].p = f
                      THEN [calls[c] EXCEPT !.pc = "done", !.result = outcome]
                      ELSE calls[c]]
  /\ inflight' = [k \in DOMAIN inflight \ {fetches[f].key} |-> inflight[k]]
  /\ UNCHANGED <<buttons, loading, dir, ino, req, side, kind, raw, t, pc, pass, out,
                 idMap, seq, allocs, allocated>>

\* showLoading, main.js 364-369
showLoading(o, msg) == [depth |-> o.depth + 1, hidden |-> FALSE, text |-> msg]
\* a faulty variant of hideLoading: the overlay is hidden whatever the depth
hideLoadingEager(o) ==
  [depth |-> IF o.depth = 0 THEN 0 ELSE o.depth - 1, hidden |-> TRUE, text |-> o.text]
\* hideLoading, main.js 370-374: Math.max(0, __loadingDepth - 1)
hideLoading(o) ==
  LET d == IF o.depth - 1 > 0 THEN o.depth - 1 ELSE 0
  IN  [depth |-> d, hidden |-> IF d = 0 THEN TRUE ELSE o.hidden, text |-> o.text]

\* a faulty variant of WithLoading: the lock is not looked at
WithLoadingUnlocked(b, label) ==
  /\ buttons[b].clicks < MaxClicks
  /\ buttons' = [buttons EXCEPT ![b] =
                   [text |-> label, lock |-> TRUE, disabled |-> TRUE, busy |-> TRUE,
                    running |-> Append(@.running, @.text), clicks |-> @.clicks + 1,
                    settled |-> @.settled]]
  /\ loading' = showLoading(loading, label)
  /\ UNCHANGED <<inflight, fetches, calls, dir, ino, req, side, kind, raw, t, pc, pass, out,
                 idMap, seq, allocs, allocated>>
\* withLoading, main.js 376-389, up to its await: a call for button b with a
\* label.  With
\* the lock set it returns at once; otherwise it keeps the text of the
\* button, sets the lock, the flags and the label, shows the overlay and
\* starts fn
WithLoading(b, label) ==
  /\ buttons[b].clicks < MaxClicks
  /\ IF buttons[b].lock
     THEN /\ buttons' = [buttons EXCEPT ![b].clicks = @ + 1]
          /\ UNCHANGED loading
     ELSE /\ buttons' = [buttons EXCEPT ![b] =
                           [text |-> label, lock |-> TRUE, disabled |-> TRUE,
                            busy |-> TRUE, running |-> Append(@.running, @.text),
                            clicks |-> @.clicks + 1, settled |-> @.settled]]
          /\ loading' = showLoading(loading, label)
  /\ UNCHANGED <<inflight, fetches, calls, dir, ino, req, side, kind, raw, t, pc, pass, out,
                 idMap, seq, allocs, allocated>>
\* withLoading, main.js 389-398: fn of a running call of button b resolves or
\* throws and the finally block runs: hideLoading, the flags are cleared,
\* the text the call kept is written back if it is not empty, the lock is
\* deleted
FnSettle(b) ==
  /\ \E i \in 1..Len(buttons[b].running), outcome \in {"resolved", "rejected"} :
       LET orig == buttons[b].running[i]
       IN  buttons' = [buttons EXCEPT ![b] =
                         [text |-> IF orig # "" THEN orig ELSE @.text,
                          lock |-> FALSE, disabled |-> FALSE, busy |-> FALSE,
                          running |-> SubSeq(@.running, 1, i - 1)
                                        \o SubSeq(@.running, i + 1, Len(@.running)),
                          clicks |-> @.clicks, settled |-> outcome]]
  /\ loading' = hideLoading(loading)
  /\ UNCHANGED <<inflight, fetches, calls, dir, ino, req, side, kind, raw, t, pc, pass, out,
                 idMap, seq, allocs, allocated>>

\* the callers of api() on the page; a key is method, path and body
SpecApi ==
  Start("client", <<>>, <<>>, "done")
    /\ [][\/ \E c \in 1..MaxCallers,
               key \in {"GET::/api/list/code::", "POST::/api/save/code::{}"} : ApiCall(c, key)
          \/ \E f \in 1..MaxFetches : ApiSettle(f)]_vars
\* the buttons of the page and the overlay
SpecButtons ==
  Start("client", <<>>, <<>>, "done")
    /\ [][\E b \in 1..MaxButtons : WithLoading(b, "Saving") \/ FnSettle(b)]_vars

(***************************************************************************)
(* stripMermaidFences on fenced and unfenced bodies.                       *)
(***************************************************************************)
\* the most characters of a body
MaxBody == 3
\* bodies without U+0060: a letter, a dash and the two kinds of white space
BodyChars == {"A", "-", " ", "\n"}
FenceBodies == UNION {[1..n -> BodyChars] : n \in 1..MaxBody}
\* the tags of the opening fence: none, mermaid, another language
FenceTags == {<<>>, L_mermaid, <<"j","s">>}
\* the bodies bare, in one fence, in two and three nested fences, and with a
\* fence at one end only
FenceInputs ==
  LET Fenced == {WrapFence(tag, b) : tag \in FenceTags, b \in FenceBodies}
      Twice == {WrapFence(<<>>, x) : x \in Fenced}
  IN  FenceBodies \cup Fenced \cup Twice \cup {WrapFence(<<>>, x) : x \in Twice}
        \cup {Fence \o tag \o <<"\n">> \o b : tag \in FenceTags, b \in FenceBodies}
        \cup {b \o <<"\n">> \o Fence : b \in FenceBodies}
InitFence ==
  \E text \in FenceInputs, sd \in {"server", "client"} : Start(sd, <<>>, text, "strip")
SpecFence == InitFence /\ [][Strip]_vars

(***************************************************************************)
(* Properties.                                                             *)
(***************************************************************************)
\* the literal lit stands somewhere in s
Occurs(s, lit) == \E i \in 1..Len(s) : HasLit(s, i, lit)
\* s ends with the literal lit
EndsWith(s, lit) == Len(s) >= Len(lit) /\ HasLit(s, Len(s) - Len(lit) + 1, lit)
\* the number of places of s where lit stands
CountOf(s, lit) == Cardinality({i \in 1..Len(s) : HasLit(s, i, lit)})
\* line is a whole line of s
HasLine(s, line) ==
  \E i \in 1..Len(s) :
    /\ i = 1 \/ s[i - 1] = "\n"
    /\ HasLit(s, i, line)
    /\ i + Len(line) > Len(s) \/ s[i + Len(line)] = "\n"
\* the invocation number p has returned
Returned(p) == pc = "done" /\ pass = p
\* the invocation ran a sanitizer: the browser always, the server for activity
Sanitized == side = "client" \/ IsActivity(kind)

\* C1: server pipeline idempotence.  When the server pipeline
\* (normalizeMermaidOutput, then sanitizeActivityFlowchart, kind activity) has
\* run on its own output, the text it returns is the text it was given.
C1_ServerIdempotent ==
  (side = "server" /\ IsActivity(kind) /\ Returned(2)) => t = out

\* C2: client pipeline idempotence.  When sanitizeActivityFlowchartClient has
\* run on its own output, the text it returns is the text it was given.
C2_ClientIdempotent ==
  (side = "client" /\ Returned(2)) => t = out

\* C3: identifier uniqueness.  Within one invocation of the allocator, two
\* calls of ensureId with different node keys never return the same
\* identifier.
C3_IdentifierUniqueness ==
  \A i, j \in 1..Len(allocs) :
    allocs[i].key # allocs[j].key => allocs[i].id # allocs[j].id
\* two node keys whose slugs coincide: the later one got the suffix _2, and a
\* third key whose own slug is that suffixed identifier got another one
C3_Witness ==
  \E i, j, k \in 1..Len(allocs) :
    /\ i < j /\ j < k
    /\ allocs[i].key = <<"[","]",":","F","o","o">> /\ allocs[i].id = <<"f","o","o">>
    /\ allocs[j].key = <<"[","]",":","f","o","o">> /\ allocs[j].id = <<"f","o","o","_","2">>
    /\ allocs[k].key = <<"[","]",":","f","o","o"," ","2">> /\ allocs[k].id = <<"f","o","o","_","2","_","2">>

\* the calls of ensureId of one invocation: equal node keys got equal
\* identifiers
EnsureIdStable ==
  \A i, j \in 1..Len(allocs) :
    allocs[i].key = allocs[j].key => allocs[i].id = allocs[j].id
\* the anonymous nodes of the texts of SpecAlloc: bracket shape and label
AnonNodes ==
  { <<"[","F","o","o","]">>, <<"[","f","o","o","]">>, <<"[","f","o","o"," ","2","]">>, <<"[","q"," ","f","o","o","]">>, <<"{","f","o","o","}">>, <<"[","?","?","]">>, <<"(","(","F","o","o",")",")">> }
\* the identifier that abuts the opening bracket at index i, <<>> if none does
IdBefore(s, i) == SubSeq(s, SkipBackWhile(IsWordCh, s, i), i - 1)
\* C4: identifier stability.  Within one invocation, every occurrence of an
\* anonymous node with the same bracket shape and the same label is written
\* with the same identifier, whatever was allocated between the occurrences,
\* also for a label with an empty slug (placeholder nK).
C4_IdentifierStability ==
  pc = "done" =>
    \A node \in AnonNodes : \A i, j \in 1..Len(t) :
      (HasLit(t, i, node) /\ HasLit(t, j, node)) =>
        IdBefore(t, i) # <<>> /\ IdBefore(t, i) = IdBefore(t, j)

\* the bare word w stands at index i as an identifier of its own
BareAt(s, i, w) ==
  HasLit(s, i, w) /\ ~IsWordCh(At(s, i - 1)) /\ ~IsWordCh(At(s, i + Len(w)))
\* w declares a node, is the source of an edge, or is the target of an edge
\* (behind the arrow or behind the closing pipe of its label)
DeclaresBare(s, w) ==
  \E i \in 1..Len(s) : BareAt(s, i, w) /\ At(s, i + Len(w)) \in {"[", "(", "{"}
SourceBare(s, w) ==
  \E i \in 1..Len(s) : BareAt(s, i, w) /\ ArrowAt(s, SkipSpace(s, i + Len(w))) # <<>>
TargetBare(s, w) ==
  \E i \in 1..Len(s) :
    /\ BareAt(s, i, w)
    /\ \/ \E a \in Arrows : HasLit(s, SkipSpaceBack(s, i) - Len(a), a)
       \/ At(s, SkipSpaceBack(s, i) - 1) = "|"
UsesBare(s, w) == DeclaresBare(s, w) \/ SourceBare(s, w) \/ TargetBare(s, w)

\* C5: reserved-word elimination.  In the output of a sanitizer no node
\* declaration and no edge endpoint is the bare identifier start or end.
C5_NoBareReserved ==
  (Sanitized /\ Returned(1)) => ~UsesBare(t, L_start) /\ ~UsesBare(t, L_end)

\* the inputs of C6: the body b unfenced or in a fence with one of the tags
FencedAs(text, b, tags) == text = b \/ \E tag \in tags : text = WrapFence(tag, b)
\* C6 (as amended): fence stripping.  For a body without U+0060,
\* stripMermaidFences of the body, unfenced or wrapped in one fence that is
\* untagged or tagged mermaid, is exactly the trimmed body.
C6_FenceStripped ==
  pc # "strip" =>
    \A b \in FenceBodies : FencedAs(raw, b, {<<>>, L_mermaid}) => t = trim(b)
\* a body with white space around it, in a fence tagged mermaid, was stripped
\* to its trimmed text
C6_Witness ==
  /\ pc # "strip"
  /\ raw = WrapFence(L_mermaid, <<" ","A","\n">>)
  /\ t = <<"A">>
\* C6 (as stated): the same for a fence tagged with any language name.
C6_AnyTagStripped ==
  pc # "strip" =>
    \A b \in FenceBodies : FencedAs(raw, b, FenceTags) => t = trim(b)

\* normalizeMermaidOutput has returned in the first invocation
Normalized ==
  /\ side = "server" /\ pass = 1
  /\ IF IsActivity(kind) THEN pc = "strip" ELSE pc = "done"
\* the header line of the input is one of the two tokens Mermaid does not know
BogusInput ==
  \/ BogusHeader(FirstLine(raw), L_usecaseDiagram)
  \/ BogusHeader(FirstLine(raw), L_activityDiagram)
\* C7: header correction follows the hint.  For an input whose header line is
\* usecaseDiagram or activityDiagram, the output of normalizeMermaidOutput
\* starts with the line flowchart LR for the hint usecase and flowchart TD for
\* the hint activity, and the lines below the header are those of the input.
C7_HeaderFollowsHint ==
  (Normalized /\ BogusInput) =>
    /\ FirstLine(t) = IF kind = K_usecase THEN L_flowchartLR ELSE L_flowchartTD
    /\ \E i \in 1..Len(t) : t[i] = "\n" /\ From(t, i + 1) = Stereotypes(RestLines(raw))

\* the identifiers and labels of the edges of the inputs
EdgeIds == {<<"A">>, <<"B">>, <<"C">>}
ReservedIds == {L_start, L_end}
EdgeLabels == {<<"Y","e","s">>, <<"N","o">>}
Malformed(src, label, tgt) == src \o <<"-","-","|">> \o label \o <<"|","-","-",">">> \o tgt
WellFormed(src, label, tgt) == src \o <<"-","-",">","|">> \o label \o <<"|">> \o tgt
\* a sequence --|Label|--> stands in s
HasDashLabelArrow(s) ==
  \E i \in 1..Len(s) :
    /\ HasLit(s, i, <<"-","-","|">>)
    /\ \E j \in (i + 4)..Len(s) :
         /\ HasLit(s, j, <<"|","-","-",">">>)
         /\ \A m \in (i + 3)..(j - 1) : s[m] # "|"
\* every malformed edge of the input with its ends in ids is well formed in
\* the output
EdgesCorrected(ids) ==
  \A src \in ids, tgt \in ids, label \in EdgeLabels :
    Occurs(raw, Malformed(src, label, tgt)) => Occurs(t, WellFormed(src, label, tgt))
EdgeTo(s, alias) ==
  \E i \in 1..Len(s) :
    /\ ArrowAt(s, i) # <<>>
    /\ BareAt(s, SkipSpace(s, i + Len(ArrowAt(s, i))), alias)
EdgeFrom(s, alias) ==
  \E i \in 1..Len(s) :
    BareAt(s, i, alias) /\ ArrowAt(s, SkipSpace(s, i + Len(alias))) # <<>>
\* a standalone declaration line of alias: alias(( at the start of a line
DeclaredOnLine(s, alias) ==
  \E i \in 1..Len(s) :
    (i = 1 \/ s[i - 1] = "\n") /\ HasLit(s, SkipSpace(s, i), alias \o <<"(","(">>)
NeedsDeclaration(s, alias) ==
  (EdgeTo(s, alias) \/ EdgeFrom(s, alias)) /\ ~DeclaredOnLine(s, alias)
\* C9: declaration completeness.  For an input with a flowchart header: if the
\* text after identifier allocation has an edge from or to startNode / endNode
\* and no standalone declaration line of that alias, the output has the line
\* startNode((Start)):::startend / endNode((End)):::startend; and an anonymous
\* [Measure] of the input is written measure[Measure].
C9_DeclarationComplete ==
  (Sanitized /\ Returned(1) /\ HasLit(raw, 1, L_flowchartTD)) =>
    /\ NeedsDeclaration(allocated, L_startNode) =>
         HasLine(t, <<"s","t","a","r","t","N","o","d","e","(","(","S","t","a","r","t",")",")",":",":",":","s","t","a","r","t","e","n","d">>)
    /\ NeedsDeclaration(allocated, L_endNode) =>
         HasLine(t, <<"e","n","d","N","o","d","e","(","(","E","n","d",")",")",":",":",":","s","t","a","r","t","e","n","d">>)
    /\ Occurs(raw, <<"[","M","e","a","s","u","r","e","]">>) => Occurs(t, <<"m","e","a","s","u","r","e","[","M","e","a","s","u","r","e","]">>)

\* one of the four tags stands in s / a classDef line stands in s
UsesTag(s) ==
  \E tag \in ClassTags, i \in 1..Len(s) :
    HasLit(s, i, <<":",":",":">> \o tag) /\ ~IsWordCh(At(s, i + 3 + Len(tag)))
ClassDefCount(s) == CountOf(s, <<"c","l","a","s","s","D","e","f"," ">>)
\* C10: style injection happens exactly once.  For an input that uses one of
\* the tags :::startend, :::step, :::decision, :::bar and has no classDef
\* line, the output ends with the block of the four default classDef lines and
\* has no other classDef line; the pipeline run again on that output returns
\* a text with the same four classDef lines.
C10_StyleInjectedOnce ==
  /\ (Sanitized /\ Returned(1) /\ UsesTag(raw) /\ ClassDefCount(raw) = 0) =>
       EndsWith(t, DefaultClassDefs) /\ ClassDefCount(t) = 4
  /\ (Sanitized /\ Returned(2) /\ EndsWith(out, DefaultClassDefs) /\ ClassDefCount(out) = 4) =>
       ClassDefCount(t) = 4
\* a text with :::decision and no classDef line went through the pipeline
\* twice and ends with the one block
C10_Witness ==
  /\ Sanitized /\ Returned(2)
  /\ Occurs(out, <<":",":",":","d","e","c","i","s","i","o","n">>)
  /\ ClassDefCount(out) = 4
  /\ ClassDefCount(t) = 4
  /\ EndsWith(t, DefaultClassDefs)

\* the stages the invocation in progress has still to run, and those of the
\* invocation on its output: a bound on the steps still to come
StagesLeft ==
  (IF pass = 1 THEN Len(ServerStages) + 3 ELSE 0)
    + (CASE pc = "done" -> 0
         [] pc = "normalize" -> Len(ServerStages) + 1
         [] OTHER ->
              Len(StagesOf(side)) + 1
                - (CHOOSE n \in 1..Len(StagesOf(side)) : StagesOf(side)[n] = pc))
\* C11: totality.  For every argument (a text, the empty text, a missing
\* argument) every invocation returns a text, and every step of an invocation
\* brings it nearer to its end: the stages left to run decrease, so the
\* invocation terminates; for the empty text and for a missing argument the
\* text returned is empty.
C11_Totality ==
  /\ [](pc = "done" => t # Null)
  /\ []((pc = "done" /\ raw \in {Null, <<>>}) => t = <<>>)
  /\ [][StagesLeft' < StagesLeft]_vars
\* the server pipeline for the kind activity returned the empty text for a
\* missing argument
C11_Witness ==
  /\ side = "server" /\ IsActivity(kind)
  /\ Returned(1) /\ raw = Null /\ t = <<>>

\* the keys and identifiers the calls of ensureId of this invocation stored
StoredByCalls ==
  {allocs[i].key : i \in 1..Len(allocs)} \cup {allocs[i].id : i \in 1..Len(allocs)}
\* C12: no memory across invocations.  An invocation that follows another one
\* returns what the pipeline returns for its own arguments alone; its
\* identifier table holds nothing but what its own calls of ensureId stored,
\* and its first placeholder is n1.
C12_NoCrossCallMemory ==
  /\ Returned(2) => t = PipelineOf(side, kind, raw)
  /\ (pass = 2 /\ allocs # <<>>) => DOMAIN idMap = StoredByCalls
  /\ (Returned(2) /\ Occurs(raw, <<"[","?","?","]">>)) => Occurs(t, <<"n","1","[","?","?","]">>)
\* the earlier invocation wrote [??] with its second placeholder n2, the
\* later one wrote it with n1
C12_Witness ==
  /\ Returned(2)
  /\ Occurs(out, <<"n","2","[","?","?","]">>)
  /\ Occurs(t, <<"n","1","[","?","?","]">>)

\* C13: fence strip is idempotent.  stripMermaidFences of a text that
\* stripMermaidFences returned is that text, also for an input in two or more
\* nested fences.
C13_StripIdempotent ==
  pc # "strip" => stripMermaidFences(t) = t

\* C14: atomic replace-on-write.  Under every interleaving of requests, no
\* loadDb reads a db.json that is not a complete document (one that is
\* opened and not yet written), and no saveDb fails because of another
\* saveDb.
C14_AtomicReplace ==
  \A r \in 1..MaxRequests : ~req[r].torn /\ req[r].pc # "failed"

\* the place of a stage in the order fence strip, header correction,
\* reserved-identifier rewrite, branch-label correction, allocation,
\* declaration enforcement, style-class injection; the rewrites of ((Start)) /
\* ((End)) references have their place between the reserved-identifier
\* rewrite and the allocation
StagePlace(stage) ==
  CASE stage = "strip" -> 1
    [] stage = "header" -> 2
    [] stage = "reserved" -> 4
    [] stage \in {"branch", "anonrefs", "anonend"} -> 5
    [] stage = "alloc" -> 6
    [] stage = "declare" -> 7
    [] stage = "classdefs" -> 8
\* C15: stage order.  In each implementation the stages of a sanitizer run in
\* the order above: no stage runs after a stage of a later place, so the
\* reserved-identifier rewrite runs before the branch-label correction, and no
\* rewrite of ((Start)) / ((End)) references runs before the
\* reserved-identifier rewrite or after the allocation.
C15_StageOrder ==
  [][(pc \notin {"normalize", "done"} /\ pc' \notin {"normalize", "done"})
       => StagePlace(pc) <= StagePlace(pc')]_vars

\* the declaration lines the enforcer may add to s: one of them or both,
\* startNode first, none for an alias that s declares on a line of its own
DeclarationLines(s) ==
  LET S == IF DeclaredOnLine(s, L_startNode) THEN {<<>>}
           ELSE {<<>>, <<"s","t","a","r","t","N","o","d","e","(","(","S","t","a","r","t",")",")",":",":",":","s","t","a","r","t","e","n","d","\n">>}
      E == IF DeclaredOnLine(s, L_endNode) THEN {<<>>}
           ELSE {<<>>, <<"e","n","d","N","o","d","e","(","(","E","n","d",")",")",":",":",":","s","t","a","r","t","e","n","d","\n">>}
  IN  {a \o b : a \in S, b \in E} \ {<<>>}
\* index h holds the line break that ends a header line of s
HeaderLineEnd(s, h) ==
  /\ s[h] = "\n"
  /\ \E i \in 1..h :
       /\ LineStart(s, i)
       /\ HasLit(s, i, L_flowchart)
       /\ \A m \in i..(h - 1) : s[m] # "\n"
\* C16: declaration injection position and frame.  Whenever the declaration
\* stage changes the text, the new text is the old one with declaration lines
\* put in directly behind the header line: startNode before endNode, no
\* alias that has a standalone declaration line, every other line as it was.
C16_InjectionFrame ==
  [][(pc = "declare" /\ t' # t) =>
       \E h \in 1..Len(t) :
         /\ HeaderLineEnd(t, h)
         /\ \E lines \in DeclarationLines(t) : t' = Upto(t, h + 1) \o lines \o From(t, h + 1)]_vars

\* C17: terminal convergence.  In the text a sanitizer returns, every
\* anonymous circular node of the input whose label contains end carries the
\* identifier endNode, the alias of the reserved-identifier stage, so ((End))
\* and ((The End)) are one node.
C17_TerminalConvergence ==
  pc = "done" =>
    \A node \in {<<"(","(","E","n","d",")",")">>, <<"(","(","T","h","e"," ","E","n","d",")",")">>} : \A i \in 1..Len(t) :
      HasLit(t, i, node) => IdBefore(t, i) = L_endNode

\* the first index of the line at i behind its indentation
LineText(s, i) == SkipWhile(LAMBDA c : c \in {" ", "\t"}, s, i)
\* the line at i is one the header search passes over: empty, a %% comment,
\* a fence marker, the opener of an HTML comment
Skippable(s, i) ==
  \/ LineText(s, i) > Len(s)
  \/ s[LineText(s, i)] = "\n"
  \/ HasLit(s, LineText(s, i), <<"%","%">>)
  \/ HasLit(s, LineText(s, i), Fence)
  \/ HasLit(s, LineText(s, i), <<"<","!","-","-">>)
\* the header candidate of s is the line at i and starts with token
CandidateIs(s, i, token) ==
  /\ LineStart(s, i)
  /\ ~Skippable(s, i)
  /\ \A j \in 1..(i - 1) : LineStart(s, j) => Skippable(s, j)
  /\ HasLitI(s, LineText(s, i), token)
\* C18: header candidate selection.  For an input whose first line that is
\* not empty, not a %% comment, not a fence marker and not an HTML comment
\* opener starts with usecaseDiagram or activityDiagram, that line of the
\* output of normalizeMermaidOutput starts with flowchart.
C18_HeaderCandidate ==
  (Normalized /\ \E i \in 1..Len(raw) :
                   CandidateIs(raw, i, L_usecaseDiagram) \/ CandidateIs(raw, i, L_activityDiagram))
    => \E i \in 1..Len(t) : CandidateIs(t, i, L_flowchart)

\* the header of the input is a flowchart header with a direction other than
\* TD and the hint is activity: the case in which the server forces TD
ForcedToTD ==
  /\ side = "server" /\ IsActivity(kind)
  /\ HasLit(FirstLine(raw), 1, L_flowchart)
  /\ FirstLine(raw) # L_flowchartTD
\* C19 (as amended): legal headers are left untouched.  For an input whose
\* header line is a legal header, the header line of the output is that of
\* the input, unless the hint is activity and the header is a flowchart
\* header with a direction other than TD.
C19_LegalHeaderKept ==
  (Returned(1) /\ FirstLine(raw) \in LegalHeaders /\ ~ForcedToTD)
    => FirstLine(t) = FirstLine(raw)
\* the server pipeline with the hint activity returned a class diagram with
\* its header
C19_Witness ==
  /\ side = "server" /\ IsActivity(kind) /\ Returned(1)
  /\ FirstLine(raw) = <<"c","l","a","s","s","D","i","a","g","r","a","m">>
  /\ FirstLine(t) = <<"c","l","a","s","s","D","i","a","g","r","a","m">>
\* C19 (as stated): the same for every hint and every legal header.
C19_AnyHint ==
  (Returned(1) /\ FirstLine(raw) \in LegalHeaders) => FirstLine(t) = FirstLine(raw)

\* s has a fence marker at its start or at its end, not at both
OneSided(s) == HasLit(s, 1, Fence) # EndsWith(s, Fence)
\* C20: fence stripping is conservative.  For an input whose trimmed text has
\* a fence marker only at its start or only at its end, stripMermaidFences
\* returns the trimmed input.
C20_Conservative ==
  (pc # "strip" /\ OneSided(trim(raw))) => t = trim(raw)

\* the identifiers that abut an opening bracket of s: the nodes of s that
\* carry an identifier
ExplicitIds(s) ==
  {IdBefore(s, i) : i \in {k \in 1..Len(s) : s[k] \in {"[", "{"} \/ HasLit(s, k, <<"(","(">>)}}
    \ {<<>>}
\* C21: allocated identifiers do not collide with identifiers of the text.
\* No identifier that ensureId gives an anonymous node is one that a node of
\* the input already carries.
C21_NoCollision ==
  (pc = "done" /\ pass = 1) =>
    \A k \in 1..Len(allocs) : allocs[k].id \notin ExplicitIds(raw)

\* the hints the flow-graph treatment is claimed for
FlowGraphAliases == {K_activity, K_usecase}
\* C22: scope of the flow-graph treatment on the server.  A conversion whose
\* hint is usecase or activity in any letter case returns the text of
\* sanitizeActivityFlowchart applied to the normalised text; for every other
\* hint it returns the normalised text.
C22_FlowGraphScope ==
  (side = "server" /\ pc = "done" /\ pass = 1) =>
    t = IF toLowerCase(kind) \in FlowGraphAliases
        THEN sanitizeActivityFlowchart(normalizeMermaidOutput(kind, raw))
        ELSE normalizeMermaidOutput(kind, raw)

\* C23: the two implementations agree.  For an input whose header line is
\* flowchart TD, the text one sanitizer returns is the text the other one
\* returns for the same input.
C23_ImplementationsAgree ==
  (pc = "done" /\ pass = 1 /\ FirstLine(raw) = L_flowchartTD) =>
    t = IF side = "server" THEN sanitizeActivityFlowchartClient(raw)
        ELSE sanitizeActivityFlowchart(raw)

\* C24: branch label before a bare target.  The branch-label stage writes
\* every --|Label| that white space and an identifier follow as -->|Label|
\* followed by the same white space and the same identifier.
C24_LabelTargetKept ==
  [][pc = "branch" =>
       \A i \in 1..Len(t) :
         LabelTargetEnd(t, i) > 0 =>
           Occurs(t', <<"-","-",">","|">> \o BranchLabel(t, i) \o <<"|">>
                        \o SubSeq(t, DashLabelPipe(t, i) + 1, LabelTargetEnd(t, i) - 1))]_vars

\* request r is a save that was answered ok: true
Saved(r) == req[r].route = "save" /\ req[r].pc = "done"
\* the records of the document db.json holds, none if it is not a document
StoredItems ==
  IF dir.db # 0 /\ ino[dir.db].state = "complete" THEN ino[dir.db].items ELSE {}
\* C25: no lost update between concurrent saves.  Whenever two saves of
\* different records were both answered ok: true, db.json holds both records
\* and the record it held before.
C25_NoLostUpdate ==
  \A r1, r2 \in 1..MaxRequests :
    (r1 # r2 /\ Saved(r1) /\ Saved(r2)) => {0, r1, r2} \subseteq StoredItems

\* a required field of the body is missing, empty or white space alone
InvalidBody(body) ==
  \E n \in DOMAIN body :
    body[n] = Null \/ \A k \in 1..Len(body[n]) : IsSpace(body[n][k])
\* C29: rejected saves change nothing.  A save with a required field that is
\* missing, empty or white space alone is answered 400 in its first step and
\* takes no further step; that step leaves db.json and db.json.tmp as they
\* are, and no file ever holds the record of the request.
C29_RejectedSaves ==
  /\ [](\A r \in 1..MaxRequests :
          (req[r].route = "save" /\ InvalidBody(req[r].body)) =>
            /\ req[r].pc = "rejected"
            /\ \A n \in DOMAIN ino : r \notin ino[n].items)
  /\ [][\A r \in 1..MaxRequests :
          /\ (req[r].pc = "load" /\ req'[r].pc = "rejected") => (dir' = dir /\ ino' = ino)
          /\ req[r].pc = "rejected" => req'[r] = req[r]]_vars
\* a save whose second field is white space alone was answered 400, and the
\* save of another request was answered ok: true
C29_Witness ==
  \E r, q \in 1..MaxRequests :
    /\ req[r].pc = "rejected" /\ req[r].body = <<<<"d","1">>, <<" ","\t">>>>
    /\ Saved(q) /\ q \in StoredItems

\* the fetch of promise f is outstanding
Outstanding(f) == f \in DOMAIN fetches /\ fetches[f].state = "pending"
\* C26: in-flight request dedup in api().  No two outstanding fetches have
\* the same key; a caller that waits holds the outstanding promise of its
\* key, the one __inflight stores, and a caller that was answered got the
\* value or the error of the promise it held; __inflight has exactly the
\* keys of the outstanding fetches, so it is empty when none is outstanding;
\* and a call with a key that has no outstanding fetch starts a new fetch.
C26_InflightDedup ==
  /\ [](/\ \A f, g \in DOMAIN fetches :
             (Outstanding(f) /\ Outstanding(g) /\ fetches[f].key = fetches[g].key) => f = g
        /\ \A c \in DOMAIN calls :
             /\ calls[c].pc = "await" =>
                  /\ Outstanding(calls[c].p)
                  /\ fetches[calls[c].p].key = calls[c].key
                  /\ calls[c].key \in DOMAIN inflight /\ inflight[calls[c].key] = calls[c].p
             /\ calls[c].pc = "done" =>
                  /\ fetches[calls[c].p].key = calls[c].key
                  /\ calls[c].result = fetches[calls[c].p].state
        /\ DOMAIN inflight = {fetches[f].key : f \in {g \in DOMAIN fetches : Outstanding(g)}})
  /\ [][\A c \in DOMAIN calls :
          (/\ calls'[c] # calls[c]
           /\ calls'[c].pc = "await"
           /\ ~\E f \in DOMAIN fetches : Outstanding(f) /\ fetches[f].key = calls'[c].key)
            => /\ Len(fetches') = Len(fetches) + 1
               /\ calls'[c].p = Len(fetches')
               /\ fetches'[calls'[c].p] = [key |-> calls'[c].key, state |-> "pending"]]_vars
\* the first fetch of a key failed, a later call with the same key started a
\* second fetch, and two callers wait for that one
C26_Witness ==
  /\ Len(fetches) = 2
  /\ fetches[1].key = fetches[2].key
  /\ fetches[1].state = "error" /\ fetches[2].state = "pending"
  /\ \E c1, c2 \in DOMAIN calls :
       /\ c1 # c2
       /\ calls[c1].pc = "await" /\ calls[c1].p = 2
       /\ calls[c2].pc = "await" /\ calls[c2].p = 2
  /\ \E c \in DOMAIN calls : calls[c].pc = "done" /\ calls[c].result = "error"

\* C27: button lock in withLoading.  A button has at most one action
\* running; with no action running it has no lock, is not disabled, is not
\* busy and shows its caption.  A call made while the lock is set starts no
\* action and leaves the overlay as it is.  The end of an action, resolved
\* or thrown, leaves the button free and with its caption.
C27_ButtonLock ==
  /\ [](\A b \in DOMAIN buttons :
          /\ Len(buttons[b].running) <= 1
          /\ buttons[b].running = <<>> =>
               /\ ~buttons[b].lock /\ ~buttons[b].disabled /\ ~buttons[b].busy
               /\ buttons[b].text = "Save")
  /\ [][\A b \in DOMAIN buttons :
          /\ (buttons[b].lock /\ buttons'[b].clicks = buttons[b].clicks + 1) =>
               /\ buttons'[b].running = buttons[b].running
               /\ loading' = loading
          /\ Len(buttons'[b].running) < Len(buttons[b].running) =>
               /\ ~buttons'[b].lock /\ ~buttons'[b].disabled /\ ~buttons'[b].busy
               /\ buttons'[b].text = "Save"
               /\ buttons'[b].settled \in {"resolved", "rejected"}]_vars
\* one button is locked and a second call for it was made before any of its
\* actions ended; the action of another button threw and that button is free
C27_Witness ==
  \E b, d \in DOMAIN buttons :
    /\ buttons[b].lock /\ buttons[b].clicks = 2 /\ buttons[b].settled = ""
    /\ Len(buttons[b].running) = 1
    /\ buttons[d].settled = "rejected" /\ ~buttons[d].lock /\ buttons[d].text = "Save"

RECURSIVE RunningUpTo(_)
\* the number of running actions of the buttons 1..n
RunningUpTo(n) ==
  IF n = 0 THEN 0 ELSE Len(buttons[n].running) + RunningUpTo(n - 1)
\* C28: loading overlay depth.  __loadingDepth is not negative and is the
\* number of withLoading actions that run, and the overlay is hidden exactly
\* when that number is 0.
C28_LoadingDepth ==
  /\ loading.depth >= 0
  /\ loading.depth = RunningUpTo(MaxButtons)
  /\ loading.hidden <=> (RunningUpTo(MaxButtons) = 0)
\* the action of one button has ended and that of another runs; the overlay is
\* shown and the depth is 1
C28_Witness ==
  /\ loading.depth = 1 /\ ~loading.hidden
  /\ \E b, d \in DOMAIN buttons :
       /\ buttons[b].settled # "" /\ buttons[b].running = <<>> /\ buttons[b].clicks = 1
       /\ Len(buttons[d].running) = 1 /\ buttons[d].clicks = 1

\* a line of s starts, behind its indentation, with the word classDef
ClassDefLine(s) ==
  \E i \in 1..Len(s) :
    /\ LineStart(s, i)
    /\ HasLit(s, LineText(s, i), <<"c","l","a","s","s","D","e","f">>)
    /\ ~IsWordCh(At(s, LineText(s, i) + 8))
\* the declaration stage of this invocation has added a declaration line
DeclarationInjected == allocated # <<>> /\ DeclareTerminals(side, allocated) # allocated
\* C30: tagged output always has class definitions.  A text a sanitizer
\* returns that uses one of the tags :::startend, :::step, :::decision, :::bar
\* has a classDef line; and if the declaration stage added a :::startend
\* declaration to an input without a classDef line, the returned text ends
\* with the default block.
C30_TaggedHasClassDef ==
  (Sanitized /\ pc = "done") =>
    /\ UsesTag(t) => ClassDefLine(t)
    /\ (DeclarationInjected /\ ~ClassDefLine(raw)) => EndsWith(t, DefaultClassDefs)
\* an input without tag and without classDef line got a declaration line
\* with :::startend and ends with the default block
C30_Witness ==
  /\ Sanitized /\ Returned(1)
  /\ ~UsesTag(raw) /\ ~ClassDefLine(raw)
  /\ DeclarationInjected
  /\ Occurs(t, <<"e","n","d","N","o","d","e","(","(","E","n","d",")",")",":",":",":","s","t","a","r","t","e","n","d","\n">>)
  /\ EndsWith(t, DefaultClassDefs)
=============================================================================
